---- MODULE Spec2Model ----
(***************************************************************************)
(* Model of the edge-push connect-four board (src/src/board.rs) and of     *)
(* the random playout that the search agent runs on copies of it           *)
(* (src/src/player/mod.rs, src/src/player/mcts.rs), and of the search tree *)
(* of src/src/player/mcts.rs (Node, Probabilistic, Certain) with the loop  *)
(* of MCTSPlayer::choose that grows it.                                    *)
(*                                                                         *)
(* A Board is the record [size, active, nlegal, state, data]; data is the  *)
(* flat, row-major cell array indexed 0 .. size*size-1, as in the source.  *)
(* usize arithmetic that can wrap is written with UsizeMod.                *)
(***************************************************************************)
EXTENDS Integers, Sequences, FiniteSets

VARIABLES
  board,  \* the Board being operated on
  last,   \* the most recent call on it and what the call returned
  plies,  \* how many pieces make_legal_move has placed on it
  score,  \* local `score` of choose_unvisited_rest, in half points (2 is 1.0)
  pc,     \* position of the first-visit / playout / choose code running on board
  node,   \* the root Node of the search tree
  loop_i  \* how many explore() calls on node have returned (i of choose)

vars == <<board, last, plies, score, pc, node, loop_i>>

\* ---------------------------------------------------------------- bounds
\* Board sizes of the game explored move by move.
Sizes == 1..3
\* generate(size, filled) is explored for sparse boards, filled <= MaxFilled,
\* and for crowded ones, at most MaxOpen cells left unblocked; set(.., Block)
\* is called while fewer than MaxFilled cells are blocked.
MaxFilled == 1
MaxOpen == 2
\* A game is followed for at most MaxPlies placed pieces.
MaxPlies == 2
\* Prepared positions (size 5, one line through a landing cell filled in) are
\* followed for at most MaxWinPlies placed pieces.
WinSizes == {5}
MaxWinPlies == 1
\* The search runs on boards of size 4 that are full except for at most
\* MaxEmpty cells taken from OpenCells; explore is called on a root at most
\* MaxExplore times, and the clock of choose runs out after at most MaxIter.
\* set is called with any entry on boards of the sizes SetSizes, with
\* coordinates up to size (one past the last row and column), at most
\* MaxSets times.
SetSizes == {2, 3}
MaxSets == 2
\* Games played to a line start from generated boards of the sizes LineSizes
\* whose open cells are one of four shapes plus at most MaxLineExtra cells.
LineSizes == {4}
MaxLineExtra == 0
SearchSizes == {4}
OpenCells == {<<0, 1>>, <<1, 1>>, <<2, 1>>, <<3, 0>>}
MaxEmpty == 3
MaxExplore == 5
MaxIter == 5
\* Children handed to a fold are Certain with depths up to MaxDepth.
MaxDepth == 2
\* Reduced width of usize: only "wrapped value >= size" is ever observed.
UsizeMod == 2^16

\* ----------------------------------------------------------------- types
Entries == {"Empty", "Block", "Player1", "Player2"}
Sides == <<"North", "East", "South", "West">>
SideSet == {"North", "East", "South", "West"}

\* Length of a winning run.
WinRun == 4

Min(a, b) == IF a <= b THEN a ELSE b

\* Entry::is_empty
is_empty(e) == e = "Empty"

\* Entry::flip
flip(e) ==
  CASE e = "Empty" -> "Block"
    [] e = "Block" -> "Empty"
    [] e = "Player1" -> "Player2"
    [] e = "Player2" -> "Player1"

\* Option<T>: None is the empty tuple, Some(x) the one-element tuple.
None == <<>>
Some(x) == <<x>>

\* Side::succ with East and South exchanged
side_succ_south_first(s) ==
  CASE s = "North" -> Some("South")
    [] s = "South" -> Some("East")
    [] s = "East" -> Some("West")
    [] s = "West" -> None

\* Side::succ
side_succ(s) ==
  CASE s = "North" -> Some("East")
    [] s = "East" -> Some("South")
    [] s = "South" -> Some("West")
    [] s = "West" -> None

\* enum Node. Every variant is written as one record shape: score and nplay
\* (in half points, 2 is 1.0) and children are read for Probabilistic only,
\* depth and index (the Certain inside) for the three Certain variants only.
Variants == {"Unvisited", "Probabilistic", "CertainLoss", "CertainWin", "CertainDraw"}

MkNode(tag, sc, np, ch, depth, index) ==
  [tag |-> tag, score |-> sc, nplay |-> np, children |-> ch,
   depth |-> depth, index |-> index]

Unvisited == MkNode("Unvisited", 0, 0, <<>>, 0, 0)

wrapping_add(x) == (x + 1) % UsizeMod
wrapping_sub(x) == (x - 1) % UsizeMod

\* ----------------------------------------------------------------- Board
\* Board::new
new(size) ==
  [size |-> size, active |-> "Player1", nlegal |-> size * 4, state |-> "Ongoing",
   data |-> [i \in 0..(size * size - 1) |-> "Empty"]]

len(b) == b.size * b.size

\* Board::pos_for
pos_for(b, index) == <<index \div b.size, index % b.size>>

\* Board::index_for
index_for(b, row, col) == row * b.size + col

\* Board::get ; None when the index is outside the array
get(b, row, col) ==
  LET i == index_for(b, row, col)
  IN IF i < len(b) THEN Some(b.data[i]) ELSE None

\* Board::get_unchecked (callers keep the index inside the array)
get_unchecked(b, row, col) == b.data[index_for(b, row, col)]

\* Board::set, for an index inside the array (outside it the unwrap panics)
set(b, row, col, entry) ==
  LET i == index_for(b, row, col)
      e == b.data[i]
      fills == is_empty(e) /\ ~is_empty(entry)
      d1 == IF fills /\ (row = 0 \/ row = b.size - 1) THEN 1 ELSE 0
      d2 == IF fills /\ (col = 0 \/ col = b.size - 1) THEN 1 ELSE 0
  IN [b EXCEPT !.nlegal = (b.nlegal - d1 - d2) % UsizeMod, !.data[i] = entry]

RECURSIVE generate_from(_, _)
generate_from(b, sample) ==
  IF sample = {} THEN b
  ELSE LET i == CHOOSE x \in sample : \A y \in sample : x <= y
           p == pos_for(b, i)
       IN generate_from(set(b, p[1], p[2], "Block"), sample \ {i})

\* Board::generate ; sample is the set of distinct indexes rand::sample drew
generate(size, sample) == generate_from(new(size), sample)

\* --------------------------------------------------------------- win check
\* The loop body shared by the four is_winning_* scans: cells is the scanned
\* line in scan order, n the length of the current run.
RECURSIVE scan_line(_, _, _, _, _, _)
scan_line(b, cells, row, col, k, n) ==
  IF k > Len(cells) THEN FALSE
  ELSE LET row1 == cells[k][1]
           col1 == cells[k][2]
           is_this == row1 = row /\ col1 = col
           is_active == b.active = get_unchecked(b, row1, col1)
           is_match == is_this \/ is_active
       IN IF is_match
          THEN IF n + 1 >= WinRun THEN TRUE
               ELSE scan_line(b, cells, row, col, k + 1, n + 1)
          ELSE scan_line(b, cells, row, col, k + 1, 0)

\* Board::is_winning_horiz
is_winning_horiz(b, row, col) ==
  scan_line(b, [k \in 1..b.size |-> <<row, k - 1>>], row, col, 1, 0)

\* Board::is_winning_vert
is_winning_vert(b, row, col) ==
  scan_line(b, [k \in 1..b.size |-> <<k - 1, col>>], row, col, 1, 0)

\* Board::is_winning_diag_nw_se
is_winning_diag_nw_se(b, row, col) ==
  LET d == Min(row, col)
      n == Min(b.size - (row - d), b.size - (col - d))
  IN scan_line(b, [k \in 1..n |-> <<row - d + k - 1, col - d + k - 1>>], row, col, 1, 0)

\* Board::is_winning_diag_sw_ne with the rows not reversed
is_winning_diag_sw_ne_no_rev(b, row, col) ==
  LET d == Min(b.size - row - 1, col)
      n == Min(row + d + 1, b.size - (col - d))
  IN scan_line(b, [k \in 1..n |-> <<k - 1, col - d + k - 1>>], row, col, 1, 0)

\* Board::is_winning_diag_sw_ne
is_winning_diag_sw_ne(b, row, col) ==
  LET d == Min(b.size - row - 1, col)
      n == Min(row + d + 1, b.size - (col - d))
  IN scan_line(b, [k \in 1..n |-> <<row + d - (k - 1), col - d + k - 1>>], row, col, 1, 0)

\* Board::is_winning without the vertical check
is_winning_no_vert(b, row, col) ==
  \/ is_winning_horiz(b, row, col)
  \/ is_winning_diag_nw_se(b, row, col)
  \/ is_winning_diag_sw_ne(b, row, col)

\* Board::is_winning
is_winning(b, row, col) ==
  \/ is_winning_horiz(b, row, col)
  \/ is_winning_vert(b, row, col)
  \/ is_winning_diag_nw_se(b, row, col)
  \/ is_winning_diag_sw_ne(b, row, col)

\* ------------------------------------------------------------------ moves
\* Move::new
Move(side, pos) == [side |-> side, pos |-> pos]

\* Move::succ
succ(b, m) ==
  LET pos == wrapping_add(m.pos)
  IN IF pos < b.size THEN Some(Move(m.side, pos))
     ELSE IF side_succ(m.side) = None THEN None
          ELSE Some(Move(side_succ(m.side)[1], 0))

\* Move::origin
origin(b, m) ==
  CASE m.side = "North" -> <<0, m.pos>>
    [] m.side = "East" -> <<m.pos, (b.size - 1) % UsizeMod>>
    [] m.side = "South" -> <<(b.size - 1) % UsizeMod, m.pos>>
    [] m.side = "West" -> <<m.pos, 0>>

\* Move::is_legal
is_legal(b, m) ==
  LET o == origin(b, m)
      e == get(b, o[1], o[2])
  IN IF e = None THEN FALSE ELSE is_empty(e[1])

\* Move::iter
iter(b, m) == [side |-> m.side, row |-> origin(b, m)[1], col |-> origin(b, m)[2]]

\* MoveVectorIter::next with East stepping like West
mvi_next_east_add(b, it) ==
  IF it.row >= b.size \/ it.col >= b.size
  THEN [item |-> None, it |-> it]
  ELSE [item |-> Some(<<it.row, it.col, get_unchecked(b, it.row, it.col)>>),
        it |-> CASE it.side = "North" -> [it EXCEPT !.row = wrapping_add(it.row)]
                 [] it.side = "East" -> [it EXCEPT !.col = wrapping_add(it.col)]
                 [] it.side = "South" -> [it EXCEPT !.row = wrapping_sub(it.row)]
                 [] it.side = "West" -> [it EXCEPT !.col = wrapping_add(it.col)]]

\* MoveVectorIter::next ; item is None at the end, else Some(<<row, col, entry>>)
mvi_next(b, it) ==
  IF it.row >= b.size \/ it.col >= b.size
  THEN [item |-> None, it |-> it]
  ELSE [item |-> Some(<<it.row, it.col, get_unchecked(b, it.row, it.col)>>),
        it |-> CASE it.side = "North" -> [it EXCEPT !.row = wrapping_add(it.row)]
                 [] it.side = "East" -> [it EXCEPT !.col = wrapping_sub(it.col)]
                 [] it.side = "South" -> [it EXCEPT !.row = wrapping_sub(it.row)]
                 [] it.side = "West" -> [it EXCEPT !.col = wrapping_add(it.col)]]

\* .take_while(|e| e.is_empty()).last().map(|(row, col, _)| (row, col))
RECURSIVE take_while_last(_, _, _)
take_while_last(b, it, prev) ==
  LET r == mvi_next(b, it)
  IN IF r.item = None THEN prev
     ELSE IF ~is_empty(r.item[1][3]) THEN prev
          ELSE take_while_last(b, r.it, Some(<<r.item[1][1], r.item[1][2]>>))

\* Move::target
target(b, m) == take_while_last(b, iter(b, m), None)

\* Move::annotated ; Some(LegalMove) or None
annotated(b, m) ==
  LET t == target(b, m)
  IN IF t = None THEN None
     ELSE Some([base |-> m, row |-> t[1][1], col |-> t[1][2],
                is_winning |-> is_winning(b, t[1][1], t[1][2])])

\* LegalMovesIter::next ; base is the iterator's Option<Move>
RECURSIVE lmi_next(_, _)
lmi_next(b, base) ==
  IF base = None THEN [item |-> None, base |-> None]
  ELSE LET nb == succ(b, base[1])
           a == annotated(b, base[1])
       IN IF a # None THEN [item |-> a, base |-> nb] ELSE lmi_next(b, nb)

RECURSIVE lmi_collect(_, _)
lmi_collect(b, base) ==
  LET r == lmi_next(b, base)
  IN IF r.item = None THEN <<>> ELSE <<r.item[1]>> \o lmi_collect(b, r.base)

\* Board::legal_moves_iter, drained into the sequence of its items
legal_moves_iter(b) == lmi_collect(b, Some(Move("North", 0)))

\* Board::make_legal_move flipping the active player before the write
make_legal_move_flip_first(b, m) ==
  LET active == flip(b.active)
      b1 == set(b, m.row, m.col, active)
  IN IF m.is_winning THEN [b1 EXCEPT !.state = "Won"]
     ELSE IF b1.nlegal = 0 THEN [b1 EXCEPT !.state = "Drawn"]
          ELSE [b1 EXCEPT !.active = active]

\* Board::make_legal_move testing nlegal before the winning flag
make_legal_move_draw_first(b, m) ==
  LET active == b.active
      b1 == set(b, m.row, m.col, active)
  IN IF b1.nlegal = 0 THEN [b1 EXCEPT !.state = "Drawn"]
     ELSE IF m.is_winning THEN [b1 EXCEPT !.state = "Won"]
          ELSE [b1 EXCEPT !.active = flip(active)]

\* Board::make_legal_move, past its debug_assert (the returned state is .state)
make_legal_move(b, m) ==
  LET active == b.active
      b1 == set(b, m.row, m.col, active)
  IN IF m.is_winning THEN [b1 EXCEPT !.state = "Won"]
     ELSE IF b1.nlegal = 0 THEN [b1 EXCEPT !.state = "Drawn"]
          ELSE [b1 EXCEPT !.active = flip(active)]

\* Board::pass, past its debug_assert
pass(b) == [b EXCEPT !.active = flip(b.active)]

\* player::choose_winning_or_random ; the set of moves it can return for the
\* legal moves ms: the first winning one, else whichever the rng kept. The
\* caller's unwrap panics when ms is empty.
RECURSIVE cwr_loop_no_return(_, _, _)
cwr_loop_no_return(ms, k, kept) ==
  IF k > Len(ms) THEN kept
  ELSE cwr_loop_no_return(ms, k + 1, kept \cup {ms[k]})

RECURSIVE cwr_loop(_, _, _)
cwr_loop(ms, k, kept) ==
  IF k > Len(ms) THEN kept
  ELSE IF ms[k].is_winning THEN {ms[k]}
       ELSE cwr_loop(ms, k + 1, kept \cup {ms[k]})

choose_winning_or_random(b) == cwr_loop(legal_moves_iter(b), 1, {})

\* Node::choose_unvisited_first without the return at a winning move
RECURSIVE cuf_loop_no_return(_, _, _)
cuf_loop_no_return(ms, k, kept) ==
  IF k > Len(ms) THEN {<<Len(ms), x[1], x[2]>> : x \in kept}
  ELSE cuf_loop_no_return(ms, k + 1, kept \cup {<<k - 1, ms[k]>>})

\* Node::choose_unvisited_first with the rng always replacing the kept move
RECURSIVE cuf_loop_always_replace(_, _, _)
cuf_loop_always_replace(ms, k, kept) ==
  IF k > Len(ms) THEN {<<Len(ms), x[1], x[2]>> : x \in kept}
  ELSE IF ms[k].is_winning THEN {<<k, k - 1, ms[k]>>}
       ELSE cuf_loop_always_replace(ms, k + 1, {<<k - 1, ms[k]>>})

\* Node::choose_unvisited_first ; the set of (n, i, m) it can return
RECURSIVE cuf_loop(_, _, _)
cuf_loop(ms, k, kept) ==
  IF k > Len(ms) THEN {<<Len(ms), x[1], x[2]>> : x \in kept}
  ELSE IF ms[k].is_winning THEN {<<k, k - 1, ms[k]>>}
       ELSE cuf_loop(ms, k + 1, kept \cup {<<k - 1, ms[k]>>})

choose_unvisited_first(b) == cuf_loop(legal_moves_iter(b), 1, {})

\* Board::make_move passing the turn when the move is rejected
make_move_pass_on_error(b, m) ==
  LET a == annotated(b, m)
  IN IF a = None THEN [board |-> pass(b), res |-> "IllegalMove", err |-> Some(m)]
     ELSE IF b.state # "Ongoing" THEN [board |-> b, res |-> "Panic", err |-> None]
          ELSE LET b1 == make_legal_move(b, a[1])
               IN [board |-> b1, res |-> b1.state, err |-> None]

\* Board::make_move without the assertion that the game is Ongoing
make_move_unasserted(b, m) ==
  LET a == annotated(b, m)
  IN IF a = None THEN [board |-> b, res |-> "IllegalMove", err |-> Some(m)]
     ELSE LET b1 == make_legal_move(b, a[1])
          IN [board |-> b1, res |-> b1.state, err |-> None]

\* Board::make_move ; res is the returned value: "Ongoing" | "Drawn" | "Won" for
\* Ok(state), "IllegalMove" for Err(IllegalMove(m)), "Panic" when the
\* debug_assert of make_legal_move fails.
\* err is the move carried by the error.
make_move(b, m) ==
  LET a == annotated(b, m)
  IN IF a = None THEN [board |-> b, res |-> "IllegalMove", err |-> Some(m)]
     ELSE IF b.state # "Ongoing" THEN [board |-> b, res |-> "Panic", err |-> None]
          ELSE LET b1 == make_legal_move(b, a[1])
               IN [board |-> b1, res |-> b1.state, err |-> None]

\* ------------------------------------------------------------ state machine
Cells(b, es) == {i \in 0..(len(b) - 1) : b.data[i] \in es}
Blocks(b) == Cardinality(Cells(b, {"Block"}))

\* The sets of indexes rand::sample(rng, 0..len, filled) can return.
Samples(size, filled) ==
  {s \in SUBSET (0..(size * size - 1)) : Cardinality(s) = Min(filled, size * size)}

Filled(size) ==
  {f \in 0..(size * size) : f <= MaxFilled \/ size * size - f <= MaxOpen}

\* Moves a caller can hand to make_move: every side, offsets 0..size (the
\* offset size is out of range).
Moves(b) == {Move(s, p) : s \in SideSet, p \in 0..b.size}

Call(op, res) == [op |-> op, res |-> res]

Generated ==
  \E size \in Sizes :
    \E filled \in Filled(size) :
      \E sample \in Samples(size, filled) :
        board = generate(size, sample)

\* Board::new / Board::generate
Init ==
  /\ Generated
  /\ last = Call("generate", "Unit")
  /\ plies = 0 /\ score = 0 /\ pc = "idle"
  /\ node = Unvisited /\ loop_i = 0

\* b.set(row, col, Entry::Block)
SetBlock(row, col) ==
  /\ row < board.size /\ col < board.size
  /\ Blocks(board) < MaxFilled
  /\ board' = set(board, row, col, "Block")
  /\ last' = Call("set", "Unit")
  /\ UNCHANGED <<plies, score, pc, node, loop_i>>

\* b.make_move(m) ; an Ongoing game is followed only while plies < bound
MakeMove(m, bound) ==
  \E r \in {make_move(board, m)} :
    LET placed == r.board # board
    IN /\ (placed /\ board.state = "Ongoing") => plies < bound
       /\ board' = r.board
       /\ last' = Call("make_move", r.res)
       /\ plies' = IF placed THEN plies + 1 ELSE plies
       /\ UNCHANGED <<score, pc, node, loop_i>>

\* b.pass()
Pass ==
  /\ IF board.state = "Ongoing"
     THEN board' = pass(board) /\ last' = Call("pass", "Unit")
     ELSE board' = board /\ last' = Call("pass", "Panic")
  /\ UNCHANGED <<plies, score, pc, node, loop_i>>

Next ==
  \/ \E row \in 0..(board.size - 1), col \in 0..(board.size - 1) : SetBlock(row, col)
  \/ \E m \in Moves(board) : MakeMove(m, MaxPlies)
  \/ Pass

Spec == Init /\ [][Next]_vars

\* ------------------------------------------------------ prepared positions
\* The cells of the line of direction d through (r, c) on a board of size n.
LineCells(n, r, c, d) ==
  {x \in (0..(n - 1)) \X (0..(n - 1)) :
     CASE d = "horiz" -> x[1] = r
       [] d = "vert" -> x[2] = c
       [] d = "nw_se" -> x[1] - x[2] = r - c
       [] d = "sw_ne" -> x[1] + x[2] = r + c}

\* b.set(row, col, entries[i]) for every index i, in index order
RECURSIVE set_all(_, _, _)
set_all(b, entries, i) ==
  IF i >= len(b) THEN b
  ELSE LET p == pos_for(b, i)
           b1 == IF entries[i] = "Empty" THEN b ELSE set(b, p[1], p[2], entries[i])
       IN set_all(b1, entries, i + 1)

\* A position as the tests build them with set: the landing cell (r, c) and the
\* column above it are Empty, the other cells of one line through it hold
\* Player1 (those in own) or Player2, the cell below it is a Block, and the
\* rest of the board is Empty; or, when crowded, Block takes the place of
\* both Player2 and Empty.
Prepared(n, r, c, d, own, crowded) ==
  LET line == LineCells(n, r, c, d)
      other == IF crowded THEN "Block" ELSE "Player2"
      entry(x) ==
        IF x[2] = c /\ x[1] <= r THEN "Empty"
        ELSE IF x \in line THEN (IF x \in own THEN "Player1" ELSE other)
        ELSE IF x = <<r + 1, c>> \/ crowded THEN "Block"
        ELSE "Empty"
      b0 == new(n)
  IN set_all(b0, [i \in 0..(n * n - 1) |-> entry(pos_for(b0, i))], 0)

InitWin ==
  /\ \E n \in WinSizes :
       \E r \in 0..(n - 1), c \in 0..(n - 1) :
         \E d \in {"horiz", "vert", "nw_se", "sw_ne"} :
           \E own \in SUBSET (LineCells(n, r, c, d) \ {<<r, c>>}) :
             \E crowded \in BOOLEAN :
               /\ crowded => r <= 1
               /\ board = Prepared(n, r, c, d, own, crowded)
  /\ last = Call("set", "Unit")
  /\ plies = 0 /\ score = 0 /\ pc = "idle"
  /\ node = Unvisited /\ loop_i = 0

\* Pieces enter prepared positions from the North side.
NextWin ==
  \/ \E p \in 0..board.size : MakeMove(Move("North", p), MaxWinPlies)
  \/ Pass

SpecWin == InitWin /\ [][NextWin]_vars

\* ------------------------------------------------- first visit and playout
\* Here board is the copy that Node::explore_unvisted received by value.
InitPlayout ==
  /\ Generated
  /\ last = Call("generate", "Unit")
  /\ plies = 0 /\ score = 0 /\ pc = "explore_unvisted"
  /\ node = Unvisited /\ loop_i = 0

\* Node::explore_unvisted up to the call of choose_unvisited_rest
FirstVisit ==
  /\ pc = "explore_unvisted"
  /\ UNCHANGED <<node, loop_i>>
  /\ board.state = "Ongoing"
  /\ IF choose_unvisited_first(board) = {}
     THEN /\ pc' = "unwrap_panic_first"
          /\ UNCHANGED <<board, last, plies, score>>
     ELSE \E c \in choose_unvisited_first(board) :
            \E b1 \in {make_legal_move(board, c[3])} :
              /\ board' = b1
              /\ last' = Call("make_legal_move", b1.state)
              /\ plies' = plies + 1
              /\ IF b1.state = "Ongoing"
                 THEN pc' = "choose_unvisited_rest" /\ score' = 2
                 ELSE pc' = "replaced" /\ score' = score

\* One turn of the loop of Node::choose_unvisited_rest keeping the score on Ongoing
PlayoutPly_keeps_score ==
  /\ pc = "choose_unvisited_rest"
  /\ UNCHANGED <<node, loop_i>>
  /\ IF choose_winning_or_random(board) = {}
     THEN /\ pc' = "unwrap_panic_rest"
          /\ UNCHANGED <<board, last, plies, score>>
     ELSE \E m \in choose_winning_or_random(board) :
            \E b1 \in {make_legal_move(board, m)} :
              /\ board' = b1
              /\ last' = Call("make_legal_move", b1.state)
              /\ plies' = plies + 1
              /\ CASE b1.state = "Won" -> pc' = "returned" /\ score' = score
                   [] b1.state = "Drawn" -> pc' = "returned" /\ score' = 1
                   [] b1.state = "Ongoing" -> pc' = pc /\ score' = score

\* One turn of the loop of Node::choose_unvisited_rest
PlayoutPly ==
  /\ pc = "choose_unvisited_rest"
  /\ UNCHANGED <<node, loop_i>>
  /\ IF choose_winning_or_random(board) = {}
     THEN /\ pc' = "unwrap_panic_rest"
          /\ UNCHANGED <<board, last, plies, score>>
     ELSE \E m \in choose_winning_or_random(board) :
            \E b1 \in {make_legal_move(board, m)} :
              /\ board' = b1
              /\ last' = Call("make_legal_move", b1.state)
              /\ plies' = plies + 1
              /\ CASE b1.state = "Won" -> pc' = "returned" /\ score' = score
                   [] b1.state = "Drawn" -> pc' = "returned" /\ score' = 1
                   [] b1.state = "Ongoing" -> pc' = pc /\ score' = 2 - score

NextPlayout == FirstVisit \/ PlayoutPly

SpecPlayout == InitPlayout /\ [][NextPlayout]_vars /\ WF_vars(PlayoutPly)

\* ---------------------------------------------------------- calls of set
SetCall(row, col, entry, res) ==
  [op |-> "set", res |-> res, row |-> row, col |-> col, entry |-> entry]

InitSet ==
  /\ \E size \in SetSizes : board = new(size)
  /\ last = Call("new", "Unit")
  /\ plies = 0 /\ score = 0 /\ pc = "in_range"
  /\ node = Unvisited /\ loop_i = 0

\* b.set(row, col, entry) ; the unwrap of get_mut panics when the index
\* row * size + col is outside the array. plies counts the calls, and pc tells
\* whether a call has had row or col outside the board.
SetCell(row, col, entry) ==
  /\ plies < MaxSets
  /\ IF index_for(board, row, col) >= len(board)
     THEN board' = board /\ last' = SetCall(row, col, entry, "Panic")
     ELSE board' = set(board, row, col, entry) /\ last' = SetCall(row, col, entry, "Unit")
  /\ plies' = plies + 1
  /\ pc' = IF row < board.size /\ col < board.size THEN pc ELSE "out_of_range"
  /\ UNCHANGED <<score, node, loop_i>>

NextSet ==
  \E row \in 0..board.size, col \in 0..board.size, entry \in Entries : SetCell(row, col, entry)

SpecSet == InitSet /\ [][NextSet]_vars

\* ------------------------------------------------------------ search tree
\* f64 scores are kept in half points (2 is 1.0); a quotient score / nplay and
\* a sampled value are kept as the pair <<numerator, denominator>>.
PRIOR == 1

\* Node::is_certain
is_certain(n) == n.tag \in {"CertainLoss", "CertainWin", "CertainDraw"}

\* Certain::new
Certain(tag, depth, index) == MkNode(tag, 0, 0, <<>>, depth, index)

\* Certain::parent keeping the depth of the child
parent_same_depth(tag, c, index) == Certain(tag, c.depth, index)

\* Certain::parent ; tag is the variant the caller wraps it in
parent(tag, c, index) == Certain(tag, c.depth + 1, index)

\* Probabilistic::new with one child too many
Probabilistic_extra_child(nchildren, sc) ==
  MkNode("Probabilistic", PRIOR + sc, PRIOR + PRIOR + 2,
         [k \in 1..(nchildren + 1) |-> Unvisited], 0, 0)

\* Probabilistic::new leaving the prior out of the score
Probabilistic_no_prior(nchildren, sc) ==
  MkNode("Probabilistic", sc, PRIOR + PRIOR + 2,
         [k \in 1..nchildren |-> Unvisited], 0, 0)

\* Probabilistic::new
Probabilistic(nchildren, sc) ==
  MkNode("Probabilistic", PRIOR + sc, PRIOR + PRIOR + 2,
         [k \in 1..nchildren |-> Unvisited], 0, 0)

\* Node::score with the values of CertainLoss and CertainWin exchanged
node_score_win_high(n) ==
  CASE n.tag = "CertainLoss" -> 0
    [] n.tag = "CertainWin" -> 2
    [] n.tag = "CertainDraw" -> 1

\* Node::score (panics for Unvisited and Probabilistic, where it is not called)
node_score(n) ==
  CASE n.tag = "CertainLoss" -> 2
    [] n.tag = "CertainWin" -> 0
    [] n.tag = "CertainDraw" -> 1

\* Node::expected_score with the values of CertainLoss and CertainWin exchanged
expected_score_win_high(n) ==
  CASE n.tag = "Unvisited" -> <<1, 2>>
    [] n.tag = "Probabilistic" -> <<n.score, n.nplay>>
    [] n.tag = "CertainLoss" -> <<0, 2>>
    [] n.tag = "CertainWin" -> <<2, 2>>
    [] n.tag = "CertainDraw" -> <<1, 2>>

\* Node::expected_score / Probabilistic::expected_score
expected_score(n) ==
  CASE n.tag = "Unvisited" -> <<1, 2>>
    [] n.tag = "Probabilistic" -> <<n.score, n.nplay>>
    [] n.tag = "CertainLoss" -> <<2, 2>>
    [] n.tag = "CertainWin" -> <<0, 2>>
    [] n.tag = "CertainDraw" -> <<1, 2>>

\* The values beta_sample is followed for: 0.25 and 0.75.
BetaSamples == {<<1, 4>>, <<3, 4>>}

\* Node::expected_score_sample ; x is what beta_sample drew
expected_score_sample(n, x) ==
  IF n.tag \in {"Unvisited", "Probabilistic"} THEN x ELSE expected_score(n)

\* Node::rank_ordinal with CertainWin ranked above every other variant
rank_ordinal_win_first(n) ==
  CASE n.tag = "Unvisited" -> 2
    [] n.tag = "Probabilistic" -> 2
    [] n.tag = "CertainLoss" -> 3
    [] n.tag = "CertainWin" -> 4
    [] n.tag = "CertainDraw" -> 1

\* Node::rank_ordinal with CertainDraw ranked above the unresolved variants
rank_ordinal_draw_over_unresolved(n) ==
  CASE n.tag = "Unvisited" -> 1
    [] n.tag = "Probabilistic" -> 1
    [] n.tag = "CertainLoss" -> 3
    [] n.tag = "CertainWin" -> 0
    [] n.tag = "CertainDraw" -> 2

\* Node::rank_ordinal
rank_ordinal(n) ==
  CASE n.tag = "Unvisited" -> 2
    [] n.tag = "Probabilistic" -> 2
    [] n.tag = "CertainLoss" -> 3
    [] n.tag = "CertainWin" -> 0
    [] n.tag = "CertainDraw" -> 1

\* Node::rank_discriminator with the signs exchanged
rank_discriminator_signs_exchanged(n) ==
  CASE n.tag = "Unvisited" -> 0
    [] n.tag = "Probabilistic" -> 0
    [] n.tag = "CertainLoss" -> n.depth
    [] n.tag = "CertainWin" -> 0 - n.depth
    [] n.tag = "CertainDraw" -> 0 - n.depth

\* Node::rank_discriminator
rank_discriminator(n) ==
  CASE n.tag = "Unvisited" -> 0
    [] n.tag = "Probabilistic" -> 0
    [] n.tag = "CertainLoss" -> 0 - n.depth
    [] n.tag = "CertainWin" -> n.depth
    [] n.tag = "CertainDraw" -> n.depth

\* Node::rank_key
rank_key(n, x) == <<rank_ordinal(n), expected_score_sample(n, x), rank_discriminator(n)>>

\* f64::partial_cmp on two quotients (no NaN arises from these values)
f64_cmp(p, q) ==
  IF p[1] * q[2] < q[1] * p[2] THEN "Less"
  ELSE IF p[1] * q[2] > q[1] * p[2] THEN "Greater" ELSE "Equal"

int_cmp(x, y) == IF x < y THEN "Less" ELSE IF x > y THEN "Greater" ELSE "Equal"

\* partial_cmp of the tuples comparing the sampled value before the ordinal
key_cmp_sample_first(k1, k2) ==
  IF f64_cmp(k1[2], k2[2]) # "Equal" THEN f64_cmp(k1[2], k2[2])
  ELSE IF int_cmp(k1[1], k2[1]) # "Equal" THEN int_cmp(k1[1], k2[1])
  ELSE int_cmp(k1[3], k2[3])

\* partial_cmp of the tuples (usize, f64, isize): lexicographic
key_cmp(k1, k2) ==
  IF int_cmp(k1[1], k2[1]) # "Equal" THEN int_cmp(k1[1], k2[1])
  ELSE IF f64_cmp(k1[2], k2[2]) # "Equal" THEN f64_cmp(k1[2], k2[2])
  ELSE int_cmp(k1[3], k2[3])

\* Iterator::max_by with key_cmp over keys[k..]: best stays only while it
\* compares Greater, so the last of several equal maxima is returned. The
\* result is a position in 1..Len(keys), one more than the index of the source.
RECURSIVE max_by_key(_, _, _)
max_by_key(keys, k, best) ==
  IF k > Len(keys) THEN best
  ELSE max_by_key(keys, k + 1, IF key_cmp(keys[best], keys[k]) = "Greater" THEN best ELSE k)

\* Finding, together with what the call did to the node in place (self) and
\* how many playouts and descents it ran. kind "Panic" is an unwrap that
\* failed below.
Finding(kind, self, n, sc, playouts, descents) ==
  [kind |-> kind, self |-> self, node |-> n, score |-> sc,
   playouts |-> playouts, descents |-> descents]

\* Node::choose_unvisited_rest ; the set of values it can return, each as
\* [panic, score, board]: panic is the unwrap of choose_winning_or_random
\* failing, board is its local b when it returns
RECURSIVE choose_unvisited_rest(_, _)
choose_unvisited_rest(b, sc) ==
  IF choose_winning_or_random(b) = {} THEN {[panic |-> TRUE, score |-> sc, board |-> b]}
  ELSE UNION {LET b1 == make_legal_move(b, m)
              IN CASE b1.state = "Won" -> {[panic |-> FALSE, score |-> sc, board |-> b1]}
                   [] b1.state = "Drawn" -> {[panic |-> FALSE, score |-> 1, board |-> b1]}
                   [] b1.state = "Ongoing" -> choose_unvisited_rest(b1, 2 - sc)
              : m \in choose_winning_or_random(b)}

\* Node::explore_unvisted reporting a drawn first move as CertainLoss
explore_unvisted_loss_on_draw(self, b) ==
  IF choose_unvisited_first(b) = {} THEN {Finding("Panic", self, self, 0, 0, 0)}
  ELSE UNION {LET b1 == make_legal_move(b, c[3])
              IN CASE b1.state = "Won" ->
                        {Finding("Replace", self, Certain("CertainWin", 1, c[2]), 0, 0, 0)}
                   [] b1.state = "Drawn" ->
                        {Finding("Replace", self, Certain("CertainLoss", 1, c[2]), 0, 0, 0)}
                   [] b1.state = "Ongoing" ->
                        {IF r.panic THEN Finding("Panic", self, self, 0, 1, 0)
                         ELSE Finding("Both", self, Probabilistic(c[1], r.score), r.score, 1, 0)
                         : r \in choose_unvisited_rest(b1, 2)}
              : c \in choose_unvisited_first(b)}

\* Node::explore_unvisted ; the set of Findings it can return
explore_unvisted(self, b) ==
  IF choose_unvisited_first(b) = {} THEN {Finding("Panic", self, self, 0, 0, 0)}
  ELSE UNION {LET b1 == make_legal_move(b, c[3])
              IN CASE b1.state = "Won" ->
                        {Finding("Replace", self, Certain("CertainWin", 1, c[2]), 0, 0, 0)}
                   [] b1.state = "Drawn" ->
                        {Finding("Replace", self, Certain("CertainDraw", 1, c[2]), 0, 0, 0)}
                   [] b1.state = "Ongoing" ->
                        {IF r.panic THEN Finding("Panic", self, self, 0, 1, 0)
                         ELSE Finding("Both", self, Probabilistic(c[1], r.score), r.score, 1, 0)
                         : r \in choose_unvisited_rest(b1, 2)}
              : c \in choose_unvisited_first(b)}

\* The second match of Node::explore: what the call leaves in the node and
\* returns, as [node, ret, panic, playouts, descents]
apply_finding(f) ==
  [node |-> CASE f.kind = "Score" -> f.self
              [] f.kind = "Replace" -> f.node
              [] f.kind = "Both" -> f.node
              [] f.kind = "Panic" -> f.self,
   ret |-> CASE f.kind = "Score" -> f.score
             [] f.kind = "Replace" -> node_score(f.node)
             [] f.kind = "Both" -> f.score
             [] f.kind = "Panic" -> 0,
   panic |-> f.kind = "Panic",
   playouts |-> f.playouts, descents |-> f.descents]

\* Probabilistic::explore always taking the first child
selected_first(children) == {1}

\* The child positions the max_by of Probabilistic::explore can select, over all
\* values the rng can give the unresolved children
selected(children) ==
  {max_by_key([k \in 1..Len(children) |-> rank_key(children[k], xs[k])], 2, 1) :
     xs \in [1..Len(children) -> BetaSamples]}

RECURSIVE explore(_, _)
\* Probabilistic::explore once the child at position k (index k - 1) is selected
prob_explore_at(self, b, k) ==
  LET child == self.children[k]
      ms == legal_moves_iter(b)
  IN CASE child.tag = "CertainLoss" ->
            {Finding("Replace", self, parent("CertainWin", child, k - 1), 0, 0, 0)}
       [] child.tag = "CertainWin" ->
            {Finding("Replace", self, parent("CertainLoss", child, k - 1), 0, 0, 0)}
       [] child.tag = "CertainDraw" ->
            {Finding("Replace", self, parent("CertainDraw", child, k - 1), 0, 0, 0)}
       [] OTHER ->
            IF k > Len(ms) THEN {Finding("Panic", self, self, 0, 0, 0)}
            ELSE {IF r.panic
                  THEN Finding("Panic", self, self, 0, r.playouts, r.descents + 1)
                  ELSE Finding("Score",
                               [self EXCEPT !.score = @ + (2 - r.ret), !.nplay = @ + 2,
                                            !.children[k] = r.node],
                               self, 2 - r.ret, r.playouts, r.descents + 1)
                  : r \in explore(child, make_legal_move(b, ms[k]))}

\* Probabilistic::explore ; the set of Findings it can return
prob_explore(self, b) ==
  UNION {prob_explore_at(self, b, k) : k \in selected(self.children)}

\* Node::explore counting a visit of a Certain node as one more move of depth
explore_certain_deepens(n, b) ==
  CASE n.tag = "Unvisited" -> {apply_finding(f) : f \in explore_unvisted(n, b)}
    [] n.tag = "Probabilistic" -> {apply_finding(f) : f \in prob_explore(n, b)}
    [] OTHER -> {apply_finding(Finding("Replace", n, [n EXCEPT !.depth = @ + 1], 0, 0, 0))}

\* Node::explore ; the set of [node, ret, panic, playouts, descents] it can end in
explore(n, b) ==
  CASE n.tag = "Unvisited" -> {apply_finding(f) : f \in explore_unvisted(n, b)}
    [] n.tag = "Probabilistic" -> {apply_finding(f) : f \in prob_explore(n, b)}
    [] OTHER -> {apply_finding(Finding("Score", n, n, node_score(n), 0, 0))}

\* Certain::best_move returning the move as landing on its origin cell
certain_best_move_at_origin(c, b) ==
  LET ms == legal_moves_iter(b)
  IN IF c.index + 1 <= Len(ms)
     THEN Some([ms[c.index + 1] EXCEPT !.row = origin(b, ms[c.index + 1].base)[1],
                                       !.col = origin(b, ms[c.index + 1].base)[2]])
     ELSE None

\* Certain::best_move ; Some(move), or None when the unwrap panics
certain_best_move(c, b) ==
  LET ms == legal_moves_iter(b)
  IN IF c.index + 1 <= Len(ms) THEN Some(ms[c.index + 1]) ELSE None

expected_cmp(n1, n2) == f64_cmp(expected_score(n1), expected_score(n2))

\* Iterator::max_by with expected_cmp over nodes[k..]
RECURSIVE max_by_expected(_, _, _)
max_by_expected(nodes, k, best) ==
  IF k > Len(nodes) THEN best
  ELSE max_by_expected(nodes, k + 1,
                       IF expected_cmp(nodes[best], nodes[k]) = "Greater" THEN best ELSE k)

\* Probabilistic::best_move ; zip stops at the shorter of children and moves
prob_best_move(p, b) ==
  LET ms == legal_moves_iter(b)
      n == Min(Len(p.children), Len(ms))
  IN IF n = 0 THEN None
     ELSE Some(ms[max_by_expected(SubSeq(p.children, 1, n), 2, 1)])

\* Node::best_move ; None when it panics
best_move(n, b) ==
  CASE n.tag = "Unvisited" -> None
    [] n.tag = "Probabilistic" -> prob_best_move(n, b)
    [] OTHER -> certain_best_move(n, b)

\* ------------------------------------------------------------ search runs
\* Positions handed to the search, built with new and set as the tests build
\* theirs: every cell is a Block except the cells of open, which are Empty,
\* and the other cells of row 0, which all hold owner.
SearchBoard(n, owner, open) ==
  LET b0 == new(n)
      entry(x) == IF x \in open THEN "Empty" ELSE IF x[1] = 0 THEN owner ELSE "Block"
  IN set_all(b0, [k \in 0..(n * n - 1) |-> entry(pos_for(b0, k))], 0)

SearchBoards ==
  {SearchBoard(n, owner, open) :
     n \in SearchSizes, owner \in {"Player1", "Player2", "Block"},
     open \in {o \in SUBSET OpenCells : Cardinality(o) <= MaxEmpty}}

ExploreCall(r) ==
  [op |-> "explore", res |-> r.ret, playouts |-> r.playouts, descents |-> r.descents]

\* let mut node = Node::Unvisited, for a caller's board b
InitSearch ==
  /\ board \in SearchBoards
  /\ last = Call("set", "Unit")
  /\ plies = 0 /\ score = 0 /\ pc = "explore"
  /\ node = Unvisited /\ loop_i = 0

\* node.explore(&mut rng, b.clone()), called by a driver at most MaxExplore times
Explore ==
  /\ pc = "explore"
  /\ loop_i < MaxExplore
  /\ \E r \in explore(node, board) :
       IF r.panic
       THEN /\ pc' = "panicked"
            /\ UNCHANGED <<board, last, plies, score, node, loop_i>>
       ELSE /\ node' = r.node
            /\ last' = ExploreCall(r)
            /\ loop_i' = loop_i + 1
            /\ UNCHANGED <<board, plies, score, pc>>

NextSearch == Explore

SpecSearch == InitSearch /\ [][NextSearch]_vars

\* MCTSPlayer::choose, line 30: node.explore(&mut rng, b.clone())
ChooseExplore ==
  /\ pc = "explore"
  /\ \E r \in explore(node, board) :
       IF r.panic
       THEN /\ pc' = "panicked"
            /\ UNCHANGED <<board, last, plies, score, node, loop_i>>
       ELSE /\ node' = r.node
            /\ last' = ExploreCall(r)
            /\ pc' = "is_certain"
            /\ UNCHANGED <<board, plies, score, loop_i>>

\* line 31 without the break
ChooseNoCertainBreak ==
  /\ pc = "is_certain"
  /\ pc' = "elapsed"
  /\ UNCHANGED <<board, last, plies, score, node, loop_i>>

\* line 31: if node.is_certain() { break; }
ChooseIsCertain ==
  /\ pc = "is_certain"
  /\ pc' = IF is_certain(node) THEN "best_move" ELSE "elapsed"
  /\ UNCHANGED <<board, last, plies, score, node, loop_i>>

\* lines 32-35: if now.elapsed() >= self.dur { break; } ; the clock is free,
\* except that it has run out once MaxIter explore calls have returned
ChooseElapsed ==
  /\ pc = "elapsed"
  /\ \E elapsed \in BOOLEAN :
       /\ loop_i + 1 >= MaxIter => elapsed
       /\ IF elapsed
          THEN pc' = "best_move" /\ loop_i' = loop_i
          ELSE pc' = "explore" /\ loop_i' = loop_i + 1
  /\ UNCHANGED <<board, last, plies, score, node>>

\* line 37: node.best_move(b)
ChooseBestMove ==
  /\ pc = "best_move"
  /\ IF best_move(node, board) = None
     THEN pc' = "panicked" /\ last' = last
     ELSE pc' = "returned" /\ last' = Call("choose", best_move(node, board)[1])
  /\ UNCHANGED <<board, plies, score, node, loop_i>>

NextChoose == ChooseExplore \/ ChooseIsCertain \/ ChooseElapsed \/ ChooseBestMove

SpecChoose == InitSearch /\ [][NextChoose]_vars

\* ------------------------------------------------------------- properties
\* What the properties are stated with, written without the iterators of the
\* source: the data index of the origin cell of (side, pos), the cell j steps
\* inward from it, and the moves in the order North, East, South, West.
EdgeIndex(b, side, pos) ==
  CASE side = "North" -> pos
    [] side = "East" -> pos * b.size + (b.size - 1)
    [] side = "South" -> (b.size - 1) * b.size + pos
    [] side = "West" -> pos * b.size

OriginEmpty(b, m) == m.pos < b.size /\ b.data[EdgeIndex(b, m.side, m.pos)] = "Empty"

Inward(b, m, j) ==
  CASE m.side = "North" -> <<j, m.pos>>
    [] m.side = "East" -> <<m.pos, b.size - 1 - j>>
    [] m.side = "South" -> <<b.size - 1 - j, m.pos>>
    [] m.side = "West" -> <<m.pos, j>>

EmptyAt(b, x) == b.data[x[1] * b.size + x[2]] = "Empty"

\* The last cell of the maximal run of Empty cells from the origin inward.
SlideTarget(b, m) ==
  IF ~OriginEmpty(b, m) THEN None
  ELSE LET j == CHOOSE j \in 0..(b.size - 1) :
                  /\ \A k \in 0..j : EmptyAt(b, Inward(b, m, k))
                  /\ j = b.size - 1 \/ ~EmptyAt(b, Inward(b, m, j + 1))
       IN Some(Inward(b, m, j))

MovesInOrder(b) ==
  [k \in 1..(4 * b.size) |-> Move(Sides[((k - 1) \div b.size) + 1], (k - 1) % b.size)]

IsOpen(b, m) == OriginEmpty(b, m)

Placed(res) == res \in {"Ongoing", "Drawn", "Won"}

\* C1: in every reachable board, of every size, nlegal equals the number of
\* moves legal_moves_iter() yields.
C1_NlegalCountsLegalMoves == board.nlegal = Len(legal_moves_iter(board))

\* C2: a move that does not resolve (origin occupied, or offset >= size) makes
\* make_move return Err(IllegalMove(m)) and leaves cells, active player,
\* nlegal and outcome as they were.
C2_IllegalMoveRejected ==
  \A m \in Moves(board) :
    /\ (annotated(board, m) = None) <=> ~OriginEmpty(board, m)
    /\ ~OriginEmpty(board, m) =>
         make_move(board, m) = [board |-> board, res |-> "IllegalMove", err |-> Some(m)]

C2_Witness ==
  /\ last = Call("make_move", "IllegalMove")
  /\ \E m \in Moves(board) : m.pos < board.size /\ ~OriginEmpty(board, m)
  /\ \E m \in Moves(board) : OriginEmpty(board, m)

\* C3: on an Ongoing board a move that resolves makes make_move return Ok and
\* changes exactly the landing cell, from Empty to the entry of the player
\* who was active; every other cell is unchanged.
C3_OnlyLandingCellChanges ==
  \A m \in Moves(board) :
    (board.state = "Ongoing" /\ OriginEmpty(board, m)) =>
      LET r == make_move(board, m)
          t == SlideTarget(board, m)[1]
          i == t[1] * board.size + t[2]
      IN /\ Placed(r.res)
         /\ board.data[i] = "Empty"
         /\ r.board.data = [board.data EXCEPT ![i] = board.active]
         /\ r.board.size = board.size

C3_Witness ==
  /\ last = Call("make_move", "Ongoing")
  /\ Blocks(board) > 0
  /\ Cells(board, {"Player1", "Player2"}) # {}

\* C4: the landing cell of a move is the last cell of the maximal run of Empty
\* cells from its origin inward; a move whose origin is occupied has none.
C4_TargetIsEndOfEmptyRun ==
  \A m \in Moves(board) : target(board, m) = SlideTarget(board, m)

\* A piece was stopped strictly inside the board by a non-Empty cell.
C4_Witness ==
  /\ Placed(last.res)
  /\ \E m \in Moves(board) : \E j \in 1..(board.size - 2) :
       /\ target(board, m) = Some(Inward(board, m, j))
       /\ ~EmptyAt(board, Inward(board, m, j + 1))

\* Four consecutive cells, all holding e, on the line of direction d through
\* (row, col).
Directions == {<<0, 1>>, <<1, 0>>, <<1, 1>>, <<1, -1>>}

InBoard(b, x) == x[1] \in 0..(b.size - 1) /\ x[2] \in 0..(b.size - 1)

RunThrough(b, e, row, col, d) ==
  \E t \in (0 - b.size)..b.size :
    \A k \in 0..(WinRun - 1) :
      LET x == <<row + (t + k) * d[1], col + (t + k) * d[2]>>
      IN InBoard(b, x) /\ b.data[x[1] * b.size + x[2]] = e

FourInLine(b, e, row, col) == \E d \in Directions : RunThrough(b, e, row, col, d)

\* C5: the is_winning flag computed before placement equals a check made from
\* scratch once the piece is written (four or more consecutive entries of the
\* active player in the row, column or a diagonal through the landing cell),
\* and make_move returns Won exactly when that check is true.
C5_WinFlagMatchesPlacedBoard ==
  [][(last'.op = "make_move" /\ Placed(last'.res)) =>
       \E i \in DOMAIN board.data :
         /\ board'.data[i] # board.data[i]
         /\ \A line \in {FourInLine(board', board.active,
                                    pos_for(board, i)[1], pos_for(board, i)[2])} :
              /\ is_winning(board, pos_for(board, i)[1], pos_for(board, i)[2]) = line
              /\ (last'.res = "Won") = line]_vars

\* A game was just won on a diagonal only.
C5_Witness ==
  /\ last = Call("make_move", "Won")
  /\ \E i \in Cells(board, {board.active}) :
       LET x == pos_for(board, i)
       IN /\ RunThrough(board, board.active, x[1], x[2], <<1, -1>>)
          /\ ~RunThrough(board, board.active, x[1], x[2], <<1, 1>>)
          /\ ~RunThrough(board, board.active, x[1], x[2], <<0, 1>>)
          /\ ~RunThrough(board, board.active, x[1], x[2], <<1, 0>>)
          /\ Cells(board, {"Block"}) # {}

\* C6: a move on an Ongoing board writes the active entry at the landing cell,
\* then the outcome is Won if the move was flagged winning (also when nlegal
\* reached 0), else Drawn if nlegal is 0 after the write, else still Ongoing
\* with the active player flipped; the active player is flipped in no other
\* case.
C6_OutcomeOfLegalMove ==
  [][(last'.op = "make_move" /\ Placed(last'.res)) =>
       /\ board.state = "Ongoing"
       /\ last'.res = board'.state
       /\ \E i \in DOMAIN board.data :
            /\ board.data[i] = "Empty"
            /\ board'.data = [board.data EXCEPT ![i] = board.active]
            /\ LET flagged == is_winning(board, pos_for(board, i)[1], pos_for(board, i)[2])
               IN board'.state = IF flagged THEN "Won"
                                 ELSE IF board'.nlegal = 0 THEN "Drawn" ELSE "Ongoing"
       /\ board'.active = IF board'.state = "Ongoing" THEN flip(board.active)
                          ELSE board.active]_vars

\* The winning move filled the last legal entry point.
C6_Witness == last = Call("make_move", "Won") /\ board.nlegal = 0

\* C7: the outcome changes only from Ongoing to Won or from Ongoing to Drawn.
C7_OutcomeMonotone ==
  [][board'.state # board.state =>
       (board.state = "Ongoing" /\ board'.state \in {"Won", "Drawn"})]_vars

\* A move was attempted on a board already Won that still has an open origin.
C7_Witness ==
  /\ last = Call("make_move", "Panic")
  /\ board.state = "Won"
  /\ board.nlegal > 0

\* C8: legal_moves_iter() yields exactly the moves whose origin cell is Empty,
\* once each, in the order North, East, South, West with increasing offset,
\* each annotated with its landing cell and winning flag.
C8_LegalMovesInOrder ==
  LET ms == legal_moves_iter(board)
      open == SelectSeq(MovesInOrder(board), LAMBDA m : IsOpen(board, m))
  IN /\ Len(ms) = Len(open)
     /\ \A k \in 1..Len(ms) :
          /\ ms[k].base = open[k]
          /\ <<ms[k].row, ms[k].col>> = SlideTarget(board, open[k])[1]
          /\ ms[k].is_winning = is_winning(board, ms[k].row, ms[k].col)

\* Some side has an occupied origin before an open one, and a later side is open.
C8_Witness ==
  /\ Placed(last.res)
  /\ ~OriginEmpty(board, Move("North", 0))
  /\ \E p \in 1..(board.size - 1) : OriginEmpty(board, Move("North", p))
  /\ \E p \in 0..(board.size - 1) : OriginEmpty(board, Move("West", p))

\* C9: every Ongoing board has nlegal > 0 and at least one legal move.
C9_OngoingHasLegalMove ==
  board.state = "Ongoing" => (board.nlegal > 0 /\ Len(legal_moves_iter(board)) > 0)

\* C10: a playout started from an Ongoing board reached by a legal move runs
\* to the end: it never fails for want of a move, and it returns with the
\* board Won or Drawn and a score of 0, 0.5 or 1.
C10_PlayoutRunsToTheEnd ==
  /\ pc # "unwrap_panic_rest"
  /\ pc = "returned" => (board.state \in {"Won", "Drawn"} /\ score \in {0, 1, 2})

\* ---------------------------------------------------- games up to a line
\* The cells Board::generate leaves Empty: row 0, column 0, or a diagonal
\* together with the edge cells through which its inner cells are reached.
LineShapes(n) ==
  {{<<0, k>> : k \in 0..(n - 1)},
   {<<k, 0>> : k \in 0..(n - 1)},
   {<<k, k>> : k \in 0..(n - 1)} \cup {<<0, 1>>, <<n - 1, n - 2>>},
   {<<n - 1 - k, k>> : k \in 0..(n - 1)} \cup {<<n - 1, 1>>, <<0, n - 2>>}}

\* Further cells that may be left Empty, on the East side of the board.
LineExtraCells(n) == {<<1, n - 1>>, <<n - 1, n - 1>>}

LineOpens(n) ==
  {shape \cup extra :
     shape \in LineShapes(n),
     extra \in {e \in SUBSET LineExtraCells(n) : Cardinality(e) <= MaxLineExtra}}

InitLine ==
  /\ \E n \in LineSizes :
       \E open \in LineOpens(n) :
         board = generate(n, {i \in 0..(n * n - 1) : <<i \div n, i % n>> \notin open})
  /\ last = Call("generate", "Unit")
  /\ plies = 0 /\ score = 0 /\ pc = "idle"
  /\ node = Unvisited /\ loop_i = 0

\* make_move and pass, in any order, until the game is over
NextLine ==
  \/ \E m \in Moves(board) : MakeMove(m, len(board))
  \/ Pass

SpecLine == InitLine /\ [][NextLine]_vars

\* ------------------------------------------------------ a RandomPlayer turn
\* One turn of the loop of main with a RandomPlayer, on the prepared
\* positions: p.choose(&b), then b.make_legal_move(m).
RandomChoose ==
  /\ pc = "idle"
  /\ IF choose_winning_or_random(board) = {}
     THEN pc' = "panicked" /\ last' = last
     ELSE \E m \in choose_winning_or_random(board) :
            pc' = "chosen" /\ last' = Call("choose", m)
  /\ UNCHANGED <<board, plies, score, node, loop_i>>

PlayChosen ==
  /\ pc = "chosen"
  /\ board' = make_legal_move(board, last.res)
  /\ last' = Call("make_legal_move", board'.state)
  /\ plies' = plies + 1
  /\ pc' = "over"
  /\ UNCHANGED <<score, node, loop_i>>

NextRandom == RandomChoose \/ PlayChosen

SpecRandom == InitWin /\ [][NextRandom]_vars

\* ------------------------------------------------- first visits with wins
\* The first visit and its playout on the positions handed to the search,
\* where either player can complete row 0. Board::new leaves Player1 to move,
\* so Player1 plays the first-visit move and Player2 the first playout move.
FirstVisitMover == "Player1"

InitPlayoutWin ==
  /\ board \in SearchBoards
  /\ board.active = FirstVisitMover
  /\ last = Call("set", "Unit")
  /\ plies = 0 /\ score = 0 /\ pc = "explore_unvisted"
  /\ node = Unvisited /\ loop_i = 0

SpecPlayoutWin == InitPlayoutWin /\ [][NextPlayout]_vars

\* ------------------------------------------------------------------ folds
\* Probabilistic::explore as a function of the children when it has to fold:
\* the node has a CertainLoss child, or all its children are Certain. The
\* children are drawn with every verdict and every depth up to MaxDepth, one
\* per legal move of the position.
FoldChildren ==
  {Unvisited} \cup {Certain(tag, depth, 0) :
                      tag \in {"CertainLoss", "CertainWin", "CertainDraw"}, depth \in 1..MaxDepth}

MustFold(n) ==
  \/ \E k \in 1..Len(n.children) : n.children[k].tag = "CertainLoss"
  \/ \A k \in 1..Len(n.children) : is_certain(n.children[k])

FoldCall(self, r) ==
  [op |-> "explore", res |-> r.ret, playouts |-> r.playouts, descents |-> r.descents,
   self |-> self]

InitFold ==
  /\ board \in SearchBoards
  /\ Len(legal_moves_iter(board)) > 0
  /\ \E sc \in {0, 2}, ch \in [1..Len(legal_moves_iter(board)) -> FoldChildren] :
       /\ node = [Probabilistic(Len(ch), sc) EXCEPT !.children = ch]
       /\ MustFold(node)
  /\ last = Call("set", "Unit")
  /\ plies = 0 /\ score = 0 /\ pc = "explore" /\ loop_i = 0

\* node.explore(&mut rng, b) ; last keeps the node the call was made on
Fold ==
  /\ pc = "explore"
  /\ \E r \in explore(node, board) :
       /\ node' = r.node
       /\ last' = FoldCall(node, r)
       /\ pc' = IF r.panic THEN "panicked" ELSE "folded"
  /\ loop_i' = loop_i + 1
  /\ UNCHANGED <<board, plies, score>>

NextFold == Fold

SpecFold == InitFold /\ [][NextFold]_vars

\* ------------------------------------------------- properties of the search
CertainTags == {"CertainLoss", "CertainWin", "CertainDraw"}

HasChild(n, tags) == \E k \in 1..Len(n.children) : n.children[k].tag \in tags

AllChildren(n, tags) == \A k \in 1..Len(n.children) : n.children[k].tag \in tags

\* was and now are one node of the tree before and after one explore();
\* P(was, now) holds of it and of every node below it that both trees have.
RECURSIVE EveryNode(_, _, _)
EveryNode(P(_, _), was, now) ==
  /\ P(was, now)
  /\ (was.tag = "Probabilistic" /\ now.tag = "Probabilistic") =>
       /\ Len(now.children) = Len(was.children)
       /\ \A k \in 1..Len(was.children) : EveryNode(P, was.children[k], now.children[k])

VariantSteps ==
  {<<"Unvisited", "Probabilistic">>, <<"Unvisited", "CertainWin">>,
   <<"Unvisited", "CertainDraw">>, <<"Probabilistic", "CertainWin">>,
   <<"Probabilistic", "CertainLoss">>, <<"Probabilistic", "CertainDraw">>}

VariantStepOk(was, now) == now.tag = was.tag \/ <<was.tag, now.tag>> \in VariantSteps

\* C11: over any sequence of explore() calls every node of the tree keeps its
\* variant or changes it along Unvisited -> Probabilistic | CertainWin |
\* CertainDraw or Probabilistic -> CertainWin | CertainLoss | CertainDraw; so
\* no node returns to Unvisited, none goes from Unvisited to CertainLoss, and
\* no Certain node changes variant.
C11_VariantChangesOnlyForward == [][EveryNode(VariantStepOk, node, node')]_vars

\* A node below the root went from Unvisited through Probabilistic to Certain.
C11_Witness ==
  /\ node.tag = "Probabilistic"
  /\ \E k \in 1..Len(node.children) :
       node.children[k].tag \in CertainTags /\ node.children[k].depth >= 2

FixedScore(tag) ==
  CASE tag = "CertainLoss" -> 2
    [] tag = "CertainWin" -> 0
    [] tag = "CertainDraw" -> 1

\* C12: explore() on a CertainWin, CertainLoss or CertainDraw node leaves the
\* node (verdict, depth, deciding index) as it was, runs no playout and no
\* descent, and returns the fixed score of the verdict (1.0, 0.0, 0.5).
C12_CertainIsAbsorbing ==
  [][node.tag \in CertainTags =>
       /\ node' = node
       /\ last'.op = "explore"
       /\ last'.res = FixedScore(node.tag)
       /\ last'.playouts = 0 /\ last'.descents = 0]_vars

\* explore() was called again on a root that its first visit had made certain.
C12_Witness == node.tag = "CertainWin" /\ node.depth = 1 /\ loop_i >= 2

\* now is the Certain node of variant tag that replaced was, decided by a
\* child of was with a variant in from.
FoldedTo(was, now, tag, from) ==
  /\ now.tag = tag
  /\ now.index + 1 \in 1..Len(was.children)
  /\ was.children[now.index + 1].tag \in from
  /\ now.depth = was.children[now.index + 1].depth + 1

WinFold(was, now) ==
  (was.tag = "Probabilistic" /\ HasChild(was, {"CertainLoss"})) =>
     (now = was \/ FoldedTo(was, now, "CertainWin", {"CertainLoss"}))

\* C13: a Probabilistic node with a CertainLoss child is replaced, when it is
\* next visited, by CertainWin whose index is a CertainLoss child and whose
\* depth is that child's depth + 1, whatever the other children are. (The root
\* is visited by every explore(); a node below it is either left as it was or
\* visited.)
C13_LossChildFoldsToWin ==
  [][/\ EveryNode(WinFold, node, node')
     /\ (node.tag = "Probabilistic" /\ HasChild(node, {"CertainLoss"})) => node' # node]_vars

\* The root was folded to a win in three from a child proven lost in two.
C13_Witness == node.tag = "CertainWin" /\ node.depth = 3

LossFold(was, now) ==
  /\ (was.tag = "Probabilistic" /\ AllChildren(was, {"CertainWin"})) =>
       (now = was \/ FoldedTo(was, now, "CertainLoss", {"CertainWin"}))
  /\ (now.tag = "CertainLoss" /\ was.tag # "CertainLoss") =>
       (was.tag = "Probabilistic" /\ AllChildren(was, {"CertainWin"}))

\* C14: a Probabilistic node all of whose children are CertainWin is replaced
\* by CertainLoss when it is next visited, and a node becomes CertainLoss
\* only in that case.
C14_AllWinChildrenFoldToLoss ==
  [][/\ EveryNode(LossFold, node, node')
     /\ (node.tag = "Probabilistic" /\ AllChildren(node, {"CertainWin"})) => node' # node]_vars

\* The root was proven lost: its only moves all let the opponent win at once.
C14_Witness == node.tag = "CertainLoss" /\ node.depth = 2

DrawFold(was, now) ==
  /\ (/\ was.tag = "Probabilistic"
      /\ AllChildren(was, {"CertainWin", "CertainDraw"})
      /\ HasChild(was, {"CertainDraw"})) =>
       (now = was \/ FoldedTo(was, now, "CertainDraw", {"CertainDraw"}))
  /\ (now.tag = "CertainDraw" /\ was.tag = "Probabilistic") =>
       AllChildren(was, {"CertainWin", "CertainDraw"})

\* C15: a Probabilistic node whose children are all CertainWin or CertainDraw,
\* at least one of them CertainDraw, is replaced by CertainDraw when it is
\* next visited; and a Probabilistic node becomes CertainDraw only when none
\* of its children is unresolved or CertainLoss.
C15_WinOrDrawChildrenFoldToDraw ==
  [][/\ EveryNode(DrawFold, node, node')
     /\ (/\ node.tag = "Probabilistic"
         /\ AllChildren(node, {"CertainWin", "CertainDraw"})
         /\ HasChild(node, {"CertainDraw"})) => node' # node]_vars

\* The root was folded to a draw from children of both kinds.
C15_Witness ==
  /\ node.tag = "CertainDraw" /\ node.depth >= 2
  /\ last.op = "explore" /\ loop_i >= 3

\* The positions of the winning items of the sequence of legal moves ms.
WinningAt(ms) == {k \in 1..Len(ms) : ms[k].is_winning}

FirstWinningAt(ms) == CHOOSE k \in WinningAt(ms) : \A j \in WinningAt(ms) : k <= j

\* C16: when the side to move has an immediately winning move, the first
\* explore() of choose makes the root CertainWin of depth 1 whose index is the
\* first winning move in legal_moves_iter order, no further explore() is run,
\* nothing panics, and choose returns that winning move.
C16_ImmediateWinIsFoundAndPlayed ==
  \A ms \in {legal_moves_iter(board)} :
    WinningAt(ms) # {} =>
      /\ pc \in {"explore", "is_certain", "best_move", "returned"}
      /\ loop_i = 0
      /\ pc = "explore" => node.tag = "Unvisited"
      /\ pc # "explore" =>
           /\ node.tag = "CertainWin" /\ node.depth = 1
           /\ node.index = FirstWinningAt(ms) - 1
      /\ pc = "returned" =>
           /\ last = Call("choose", ms[FirstWinningAt(ms)])
           /\ last.res.is_winning

\* choose returned the winning move of a position that has other moves too.
C16_Witness ==
  /\ pc = "returned"
  /\ WinningAt(legal_moves_iter(board)) # {}
  /\ Len(legal_moves_iter(board)) > Cardinality(WinningAt(legal_moves_iter(board)))

\* n is a tree for the position b: a Probabilistic node has one child per
\* legal move of b, child k being a tree for the position after the k-th
\* move; the index of a Certain node is the index of a legal move of b, and
\* for a Certain node of depth 1 that move wins (CertainWin) or draws
\* (CertainDraw) at once.
RECURSIVE TreeMatches(_, _)
TreeMatches(n, b) ==
  n.tag # "Unvisited" =>
  \A ms \in {legal_moves_iter(b)} :
    CASE n.tag = "Probabilistic" ->
           /\ Len(n.children) = Len(ms)
           /\ \A k \in 1..Len(ms) : TreeMatches(n.children[k], make_legal_move(b, ms[k]))
      [] OTHER ->
           /\ n.index < Len(ms)
           /\ (n.depth = 1 /\ n.tag = "CertainWin") => ms[n.index + 1].is_winning
           /\ (n.depth = 1 /\ n.tag = "CertainDraw") =>
                make_legal_move(b, ms[n.index + 1]).state = "Drawn"

\* C17: at every point of a search every Probabilistic node has exactly one
\* child per legal move of its position, child i belonging to the i-th move
\* of legal_moves_iter(), and every Certain node's index is below the number
\* of legal moves of its position; so no nth(i) lookup of the descent or of
\* best_move fails (the only panic is the root position having no move).
C17_ChildrenFollowLegalMoves ==
  /\ TreeMatches(node, board)
  /\ pc = "panicked" => (node.tag = "Unvisited" /\ Len(legal_moves_iter(board)) = 0)

\* choose returned from a tree that was grown two levels deep and folded below.
C17_Witness ==
  /\ pc = "returned" /\ node.tag = "Probabilistic"
  /\ \E k \in 1..Len(node.children) :
       /\ node.children[k].tag = "Probabilistic"
       /\ HasChild(node.children[k], CertainTags)

\* C18: the move choose returns is one of the items legal_moves_iter() yields
\* on the caller's board, and the caller's board is never changed by the
\* search.
C18_ReturnsLegalMoveBoardUntouched ==
  /\ [](pc = "returned" =>
          (last.op = "choose" /\
           \E k \in 1..Len(legal_moves_iter(board)) : last.res = legal_moves_iter(board)[k]))
  /\ [][board' = board]_vars

\* choose returned a move that slides past its origin, from a certain root.
C18_Witness ==
  /\ pc = "returned" /\ node.tag \in CertainTags
  /\ last.res.row # origin(board, last.res.base)[1]

\* C19: choose runs whole explore() calls on the root and looks at the two
\* stop conditions only after one has returned: it leaves the loop as soon
\* as the root is Certain, or else when the time is up, never calls explore()
\* on a Certain root, and asks for the best move only after at least one
\* explore(), so never of an Unvisited root.
C19_LoopStopsBetweenIterations ==
  /\ [](pc = "best_move" => node.tag # "Unvisited")
  /\ [](pc = "explore" => node.tag \notin CertainTags)
  /\ [][/\ node' # node => (pc = "explore" /\ pc' = "is_certain")
        /\ (pc = "is_certain" /\ node.tag \in CertainTags) => pc' = "best_move"
        /\ (pc # "explore" /\ pc' = "explore") =>
             (pc = "elapsed" /\ node.tag \notin CertainTags /\ loop_i' = loop_i + 1)
        /\ (pc # "best_move" /\ pc' = "best_move") =>
             /\ node' = node
             /\ \/ pc = "is_certain" /\ node.tag \in CertainTags
                \/ pc = "elapsed" /\ node.tag \notin CertainTags]_vars

\* The time ran out after several iterations with the root still unresolved.
C19_Witness == pc = "best_move" /\ node.tag = "Probabilistic" /\ loop_i >= 2

ReturnedChild == CHOOSE k \in 1..Len(legal_moves_iter(board)) : legal_moves_iter(board)[k] = last.res

\* C20: the move best_move returns at a Probabilistic root leads to a
\* CertainLoss child (a forced win for the root's mover) whenever there is
\* one, leads to a CertainWin child (a forced loss) only when every child is
\* CertainWin, and among Probabilistic children to one whose score / nplay
\* is not below that of any other.
C20_BestMoveAtProbabilisticRoot ==
  (pc = "returned" /\ node.tag = "Probabilistic") =>
    \A c \in {node.children[ReturnedChild]} :
      /\ HasChild(node, {"CertainLoss"}) => c.tag = "CertainLoss"
      /\ c.tag = "CertainWin" => AllChildren(node, {"CertainWin"})
      /\ c.tag = "Probabilistic" =>
           \A j \in 1..Len(node.children) :
             node.children[j].tag = "Probabilistic" =>
               c.score * node.children[j].nplay >= node.children[j].score * c.nplay

\* The time ran out with a child proven lost and another child not.
C20_Witness ==
  /\ pc = "returned" /\ node.tag = "Probabilistic"
  /\ HasChild(node, {"CertainLoss"})
  /\ HasChild(node, Variants \ {"CertainLoss"})

\* The class of a child in the order used during search, highest first:
\* forced win for the parent's mover (CertainLoss), unresolved, proven draw,
\* forced loss (CertainWin).
ChildClass(n) ==
  CASE n.tag = "CertainLoss" -> 3
    [] n.tag \in {"Unvisited", "Probabilistic"} -> 2
    [] n.tag = "CertainDraw" -> 1
    [] n.tag = "CertainWin" -> 0

\* C21: the move best_move returns at a Probabilistic root leads to a proven
\* draw or a forced loss (a CertainDraw or CertainWin child) only when no
\* child of a higher class exists, the classes being ordered as during search.
C21_BestMoveFollowsSearchOrder ==
  (pc = "returned" /\ node.tag = "Probabilistic") =>
    \A c \in {node.children[ReturnedChild]} :
      c.tag \in {"CertainDraw", "CertainWin"} =>
        \A j \in 1..Len(node.children) : ChildClass(node.children[j]) <= ChildClass(c)

\* The (side, offset) pairs of a board, offset < size, whose edge cell is Empty.
OpenPairs(b) == {m \in {Move(sd, p) : sd \in SideSet, p \in 0..(b.size - 1)} : OriginEmpty(b, m)}

\* How many sides the cell (row, col) is an origin for: 2 at a corner, 1 on a
\* non-corner edge, 0 inside (size >= 2).
EdgeCount(b, row, col) ==
  (IF row = 0 \/ row = b.size - 1 THEN 1 ELSE 0) + (IF col = 0 \/ col = b.size - 1 THEN 1 ELSE 0)

\* C22: after any sequence of set(row, col, entry) calls with row and col
\* inside the board, overwriting and emptying included, nlegal is the number
\* of (side, offset) pairs whose edge cell is Empty; and such a call that
\* fills an Empty cell lowers nlegal by 2 at a corner, 1 on a non-corner edge
\* and 0 inside.
C22_SetKeepsNlegal ==
  /\ [](pc = "in_range" => board.nlegal = Cardinality(OpenPairs(board)))
  /\ [][(/\ pc' = "in_range"
         /\ board.data[index_for(board, last'.row, last'.col)] = "Empty"
         /\ last'.entry # "Empty") =>
          board'.nlegal = board.nlegal - EdgeCount(board, last'.row, last'.col)]_vars

\* C23: get(row, col) is the entry of cell (row, col) when row < size and
\* col < size and None whenever row >= size or col >= size; set with
\* row >= size or col >= size fails and changes neither a cell nor nlegal.
C23_GetSetBoundsChecked ==
  /\ [](\A row \in 0..board.size, col \in 0..board.size :
          get(board, row, col) =
            IF row < board.size /\ col < board.size
            THEN Some(board.data[row * board.size + col]) ELSE None)
  /\ [][(last'.op = "set" /\ (last'.row >= board.size \/ last'.col >= board.size)) =>
          (last'.res = "Panic" /\ board' = board)]_vars

\* C24: for every move, offsets >= size included, is_legal holds exactly
\* when the origin is an existing edge cell that is Empty, which is exactly
\* when annotated gives Some; and a set call that fills a corner cell makes
\* the two moves that originate there illegal and changes is_legal of no other.
C24_IsLegalIffOriginEmpty ==
  /\ [](\A m \in Moves(board) :
          /\ is_legal(board, m) = OriginEmpty(board, m)
          /\ is_legal(board, m) = (annotated(board, m) # None))
  /\ [][(/\ pc' = "in_range"
         /\ EdgeCount(board, last'.row, last'.col) = 2
         /\ board.data[index_for(board, last'.row, last'.col)] = "Empty"
         /\ last'.entry # "Empty") =>
          \A m \in Moves(board) :
            is_legal(board', m) =
              (is_legal(board, m) /\ origin(board, m) # <<last'.row, last'.col>>)]_vars

\* The game-theoretic value of the Ongoing position b for the player to
\* move, in half points (2 win, 1 draw, 0 loss): the best, over the legal
\* moves, of what the move brings. A position without a legal move has none (-1).
RECURSIVE Minimax(_)
MoveValue(b, m) ==
  LET b1 == make_legal_move(b, m)
  IN CASE b1.state = "Won" -> 2
       [] b1.state = "Drawn" -> 1
       [] b1.state = "Ongoing" -> 2 - Minimax(b1)

Minimax(b) ==
  LET ms == legal_moves_iter(b)
      vs == {MoveValue(b, ms[k]) : k \in 1..Len(ms)}
  IN IF vs = {} THEN 0 - 1 ELSE CHOOSE v \in vs : \A w \in vs : w <= v

VerdictValue(tag) ==
  CASE tag = "CertainWin" -> 2 [] tag = "CertainDraw" -> 1 [] tag = "CertainLoss" -> 0

\* Every Certain node of the tree n rooted at position b carries the exact
\* value of its position, and the move at its index achieves it.
RECURSIVE CertainExact(_, _)
CertainExact(n, b) ==
  CASE n.tag = "Unvisited" -> TRUE
    [] n.tag = "Probabilistic" ->
         \A ms \in {legal_moves_iter(b)} :
           \A k \in 1..Len(n.children) :
             n.children[k].tag = "Unvisited" \/
               (k <= Len(ms) /\ CertainExact(n.children[k], make_legal_move(b, ms[k])))
    [] OTHER ->
         \A ms \in {legal_moves_iter(b)} :
           /\ Minimax(b) = VerdictValue(n.tag)
           /\ n.index + 1 <= Len(ms)
           /\ MoveValue(b, ms[n.index + 1]) = VerdictValue(n.tag)

\* C25: every CertainWin, CertainLoss or CertainDraw node of the search tree,
\* the root included, carries the exact minimax value of its position for the
\* player to move there (win, loss, draw), and the move at its index achieves
\* that value; a depth-1 CertainDraw made after one of several legal moves
\* was tried is included.
C25_CertainIsMinimaxValue == CertainExact(node, board)

\* The root is a depth-1 CertainDraw at a position with several legal moves.
C25_Witness ==
  node.tag = "CertainDraw" /\ node.depth = 1 /\ Len(legal_moves_iter(board)) >= 2

\* How many nodes have another variant in the tree now than in the tree was.
\* A node that changes variant gets fresh children or none, counted as 1.
RECURSIVE VariantChanges(_, _)
RECURSIVE ChildChanges(_, _, _)
ChildChanges(was, now, k) ==
  IF k > Len(was.children) THEN 0
  ELSE VariantChanges(was.children[k], now.children[k]) + ChildChanges(was, now, k + 1)

VariantChanges(was, now) ==
  IF was.tag # now.tag THEN 1
  ELSE IF Len(was.children) # Len(now.children) THEN 2
       ELSE ChildChanges(was, now, 1)

\* C26: every explore() call on a root that is not yet Certain returns, and
\* changes the variant of exactly one node of the tree, on every board (so
\* that repeated calls end with a Certain root).
C26_ExploreResolvesOneNode ==
  /\ [](pc # "panicked")
  /\ [][~is_certain(node) => VariantChanges(node, node') = 1]_vars

Unresolved == {"Unvisited", "Probabilistic"}

\* now is the Probabilistic node was after one descent into its unresolved
\* child at position k: one more play, that child changed, the others untouched.
DescentInto(was, now, k) ==
  /\ now.tag = "Probabilistic"
  /\ Len(now.children) = Len(was.children)
  /\ now.nplay = was.nplay + 2
  /\ was.children[k].tag \in Unresolved
  /\ now.children[k] # was.children[k]
  /\ \A j \in 1..Len(was.children) : j # k => now.children[j] = was.children[j]

\* now is the Certain node that replaced was by copying the inverted verdict
\* of one of its Certain children.
CopiedVerdict(was, now) ==
  \/ FoldedTo(was, now, "CertainWin", {"CertainLoss"})
  \/ FoldedTo(was, now, "CertainLoss", {"CertainWin"})
  \/ FoldedTo(was, now, "CertainDraw", {"CertainDraw"})

SelectionOk(was, now) ==
  (was.tag = "Probabilistic" /\ now # was) =>
    /\ \/ \E k \in 1..Len(was.children) : DescentInto(was, now, k)
       \/ CopiedVerdict(was, now)
    /\ (HasChild(was, Unresolved) /\ ~HasChild(was, {"CertainLoss"})) =>
         \E k \in 1..Len(was.children) : DescentInto(was, now, k)

\* C27: an explore() that visits a Probabilistic node either descends into
\* one child that was Unvisited or Probabilistic, or replaces the node by the
\* inverted verdict of a Certain child, and does nothing else; while the node
\* has an unresolved child and no CertainLoss child it descends into an
\* unresolved child, never selecting a CertainDraw or CertainWin child.
C27_ResolvedChildrenOnlyCopied == [][EveryNode(SelectionOk, node, node')]_vars

\* The last explore() gave an Unvisited child of the root its first visit,
\* with a playout, while a sibling was already CertainDraw or CertainWin.
C27_Witness ==
  /\ node.tag = "Probabilistic"
  /\ last.op = "explore" /\ last.descents = 1 /\ last.playouts = 1
  /\ HasChild(node, {"CertainDraw", "CertainWin"})
  /\ \E k \in 1..Len(node.children) :
       node.children[k].tag = "Probabilistic" /\ node.children[k].nplay = PRIOR + PRIOR + 2

ChildDepths(n, tag) ==
  {n.children[k].depth : k \in {j \in 1..Len(n.children) : n.children[j].tag = tag}}

\* now replaced was, decided by a child of variant from whose depth is
\* extreme(depths of all children of that variant).
FoldedByDepth(was, now, from, extreme(_)) ==
  /\ now.index + 1 \in 1..Len(was.children)
  /\ was.children[now.index + 1].tag = from
  /\ was.children[now.index + 1].depth = extreme(ChildDepths(was, from))
  /\ now.depth = was.children[now.index + 1].depth + 1

Greatest(ds) == CHOOSE d \in ds : \A e \in ds : e <= d
Smallest(ds) == CHOOSE d \in ds : \A e \in ds : d <= e
AnyOf(ds) == CHOOSE d \in ds : TRUE

\* C28: a fold to CertainLoss is decided by a CertainWin child of greatest
\* depth, a fold to CertainWin by a CertainLoss child of smallest depth; in
\* every fold the node gets the deciding child's depth + 1 and its position
\* as index.
C28_FoldPicksChildByDepth ==
  pc = "folded" =>
    /\ node.tag \in CertainTags
    /\ node.tag = "CertainLoss" => FoldedByDepth(last.self, node, "CertainWin", Greatest)
    /\ node.tag = "CertainWin" => FoldedByDepth(last.self, node, "CertainLoss", Smallest)
    /\ node.tag = "CertainDraw" =>
         /\ node.index + 1 \in 1..Len(last.self.children)
         /\ last.self.children[node.index + 1].tag = "CertainDraw"
         /\ node.depth = last.self.children[node.index + 1].depth + 1

\* A fold to CertainWin took the shallower of two CertainLoss children
\* although the deeper one came later in the children.
C28_Witness ==
  /\ pc = "folded"
  /\ node.tag = "CertainWin"
  /\ \E k \in 1..Len(last.self.children) :
       /\ k > node.index + 1
       /\ last.self.children[k].tag = "CertainLoss"
       /\ last.self.children[k].depth > last.self.children[node.index + 1].depth

\* n is a Probabilistic node with count children, all Unvisited.
IsFresh(n, count) ==
  /\ n.tag = "Probabilistic"
  /\ Len(n.children) = count
  /\ \A k \in 1..count : n.children[k] = Unvisited

\* n is what a first visit may leave at the position b with legal moves ms.
AllowedFirstVisit(n, b, ms) ==
  IF WinningAt(ms) # {}
  THEN n = Certain("CertainWin", 1, FirstWinningAt(ms) - 1)
  ELSE \E k \in 1..Len(ms) :
         \A b1 \in {make_legal_move(b, ms[k])} :
           \/ b1.state = "Drawn" /\ n = Certain("CertainDraw", 1, k - 1)
           \/ b1.state = "Ongoing" /\ IsFresh(n, Len(ms))

\* What choose_unvisited_first and explore can do at the position b of an
\* Unvisited node.
FirstVisitOk(b) ==
  \A ms \in {legal_moves_iter(b)} :
    Len(ms) > 0 =>
      \A cs \in {choose_unvisited_first(b)}, ns \in {{r.node : r \in explore(Unvisited, b)}} :
        /\ \A n \in ns : AllowedFirstVisit(n, b, ms)
        /\ IF WinningAt(ms) # {}
           THEN {<<c[2], c[3]>> : c \in cs} =
                  {<<FirstWinningAt(ms) - 1, ms[FirstWinningAt(ms)]>>}
           ELSE /\ cs = {<<Len(ms), k - 1, ms[k]>> : k \in 1..Len(ms)}
                /\ \A k \in 1..Len(ms) :
                     \A b1 \in {make_legal_move(b, ms[k])} :
                       /\ b1.state = "Drawn" => Certain("CertainDraw", 1, k - 1) \in ns
                       /\ b1.state = "Ongoing" => \E n \in ns : IsFresh(n, Len(ms))

RECURSIVE UnvisitedOk(_, _)
UnvisitedOk(n, b) ==
  CASE n.tag = "Unvisited" -> FirstVisitOk(b)
    [] n.tag = "Probabilistic" ->
         \A ms \in {legal_moves_iter(b)} :
           \A k \in 1..Len(n.children) :
             k <= Len(ms) /\ UnvisitedOk(n.children[k], make_legal_move(b, ms[k]))
    [] OTHER -> TRUE

\* C29: on the first visit of an Unvisited node, at the root or below: if a
\* legal move wins at once, the first such move in iteration order is chosen
\* and the node becomes CertainWin(1, its index); otherwise every legal move
\* can be the one chosen, and the node becomes CertainDraw(1, index of the
\* move) if the move draws, else Probabilistic with as many children as the
\* position has legal moves, all Unvisited.
C29_FirstVisit ==
  /\ [](UnvisitedOk(node, board))
  /\ [][(node.tag = "Unvisited" /\ pc' # "panicked") =>
          AllowedFirstVisit(node', board, legal_moves_iter(board))]_vars

\* The first visit of the root chose the second of its legal moves, which drew.
C29_Witness == loop_i = 1 /\ node = Certain("CertainDraw", 1, 1)

\* The playout ended with the win of player who: make_legal_move leaves the
\* winner as the active player of a Won board.
PlayoutWonBy(who) == board.state = "Won" /\ board.active = who

\* C30: the score a playout returns after a first visit that did not end
\* the game is 1 if the player of the first-visit move wins the playout, 0
\* if the opponent wins it, 0.5 if it is drawn (2, 0, 1 in half points).
C30_SampleIsForFirstVisitMover ==
  pc = "returned" =>
    /\ PlayoutWonBy(FirstVisitMover) => score = 2
    /\ PlayoutWonBy(flip(FirstVisitMover)) => score = 0
    /\ board.state = "Drawn" => score = 1

\* C30 amended: the score a playout returns after a first visit that did not
\* end the game is from the perspective of the opponent of the player of the
\* first-visit move, the player who moved into the node: 1 if that opponent
\* wins the playout, 0 if the player of the first-visit move wins it, 0.5 if
\* it is drawn.
C30_SampleIsForOpponentOfFirstVisitMover ==
  pc = "returned" =>
    /\ PlayoutWonBy(flip(FirstVisitMover)) => score = 2
    /\ PlayoutWonBy(FirstVisitMover) => score = 0
    /\ board.state = "Drawn" => score = 1

\* A playout of two moves that the player of the first-visit move won.
C30_Witness == pc = "returned" /\ PlayoutWonBy(FirstVisitMover) /\ plies = 3

\* The value the explore() that turned the node was into now returned, read
\* off the node: the score of the verdict when it ends Certain, the playout
\* sample a new Probabilistic node is seeded with, or what a Probabilistic
\* node added to its score.
ReturnedBy(was, now) ==
  CASE is_certain(now) -> node_score(now)
    [] was.tag = "Unvisited" -> now.score - PRIOR
    [] OTHER -> now.score - was.score

\* A Probabilistic node that was visited and stays Probabilistic made one
\* descent, and added the complement of what the child returned to its score.
ScoreFlows(was, now) ==
  (was.tag = "Probabilistic" /\ now.tag = "Probabilistic" /\ now # was) =>
    \E k \in 1..Len(was.children) :
      /\ DescentInto(was, now, k)
      /\ now.score = was.score + (2 - ReturnedBy(was.children[k], now.children[k]))

\* The verdict that the end of a playout is for the player mover.
OutcomeFor(b, mover) ==
  CASE b.state = "Drawn" -> "CertainDraw"
    [] b.state = "Won" /\ b.active = mover -> "CertainWin"
    [] b.state = "Won" /\ b.active # mover -> "CertainLoss"

\* Every playout a first visit at the position b can run returns the score
\* that a node with the verdict of its outcome, for the player to move at b,
\* returns.
PlayoutLikeVerdict(b) ==
  \A c \in choose_unvisited_first(b) :
    \A b1 \in {make_legal_move(b, c[3])} :
      b1.state = "Ongoing" =>
        \A r \in choose_unvisited_rest(b1, 2) :
          ~r.panic => r.score = node_score(Certain(OutcomeFor(r.board, b.active), 1, 0))

RECURSIVE PlayoutsOk(_, _)
PlayoutsOk(n, b) ==
  CASE n.tag = "Unvisited" -> PlayoutLikeVerdict(b)
    [] n.tag = "Probabilistic" ->
         \A ms \in {legal_moves_iter(b)} :
           \A k \in 1..Len(n.children) :
             k <= Len(ms) /\ PlayoutsOk(n.children[k], make_legal_move(b, ms[k]))
    [] OTHER -> TRUE

\* C31: the score explore() returns has one perspective: a playout returns
\* what a node with the verdict of the playout's outcome returns (so a win of
\* the node's mover gives the score of CertainWin); a Probabilistic node that
\* descends adds 1 - (the child's returned score) to its score and 1 to its
\* play count, and returns that complemented value.
C31_ReturnedScoreHasOnePerspective ==
  /\ [](PlayoutsOk(node, board))
  /\ [][pc' # "panicked" =>
          /\ last'.res = ReturnedBy(node, node')
          /\ EveryNode(ScoreFlows, node, node')]_vars

\* The last explore() went down two levels from a Probabilistic root that
\* stays Probabilistic.
C31_Witness ==
  node.tag = "Probabilistic" /\ last.op = "explore" /\ last.descents = 2

\* The moves choose_winning_or_random may return at a position with the
\* legal moves ms: the first winning one if there is one, else any of them.
MayChoose(ms) ==
  IF WinningAt(ms) # {} THEN {ms[FirstWinningAt(ms)]} ELSE {ms[k] : k \in 1..Len(ms)}

\* C32: on a board with a legal move, choose_winning_or_random returns the
\* first winning move in legal_moves_iter order whenever there is a winning
\* move, and otherwise a legal move of the board, every legal move being a
\* possible result; RandomPlayer::choose returns what it returns.
C32_WinningOrAnyLegalMove ==
  pc \in {"idle", "chosen"} =>
    \A ms \in {legal_moves_iter(board)}, cs \in {choose_winning_or_random(board)} :
      Len(ms) > 0 =>
        /\ cs = MayChoose(ms)
        /\ \A m \in cs : is_legal(board, m.base)
        /\ pc = "chosen" => last.res \in cs

\* RandomPlayer::choose returned the first of several winning moves, which
\* is not the first legal move.
C32_Witness ==
  /\ pc = "chosen"
  /\ last.res.is_winning
  /\ Cardinality(WinningAt(legal_moves_iter(board))) >= 2
  /\ FirstWinningAt(legal_moves_iter(board)) > 1

\* Scores and play counts are in half points: 1 is 0.5, 2 is 1.0, 4 is 2.0.
PosteriorOk(n) ==
  /\ 1 <= n.score /\ n.score <= n.nplay - 1
  /\ n.score > 0 /\ n.nplay - n.score > 0
  /\ f64_cmp(<<0, 1>>, expected_score(n)) = "Less"
  /\ f64_cmp(expected_score(n), <<1, 1>>) = "Less"

RECURSIVE EveryProbabilistic(_)
EveryProbabilistic(n) ==
  n.tag = "Probabilistic" =>
    /\ PosteriorOk(n)
    /\ \A k \in 1..Len(n.children) : EveryProbabilistic(n.children[k])

CountsStep(was, now) ==
  /\ (was.tag = "Unvisited" /\ now.tag = "Probabilistic") =>
       (now.nplay = 4 /\ now.score - 1 \in {0, 1, 2})
  /\ (was.tag = "Probabilistic" /\ now.tag = "Probabilistic" /\ now # was) =>
       (now.nplay = was.nplay + 2 /\ now.score - was.score \in {0, 1, 2})

\* C33: every Probabilistic node is created with nplay = 2 and score = 0.5 +
\* its first playout sample, gains exactly 1 in nplay and 0, 0.5 or 1 in
\* score per completed descent, and always has 0.5 <= score <= nplay - 0.5,
\* so score and nplay - score are positive and score / nplay lies strictly
\* between 0 and 1.
C33_PosteriorStaysProper ==
  /\ [](EveryProbabilistic(node))
  /\ [][/\ EveryNode(CountsStep, node, node')
        /\ (node.tag = "Unvisited" /\ node'.tag = "Probabilistic") =>
             node'.score = 1 + last'.res]_vars

\* The root has been through its first visit and two descents, each of
\* which added a whole point, so its score is at the upper end nplay - 0.5.
C33_Witness ==
  node.tag = "Probabilistic" /\ node.nplay >= 8 /\ node.score = node.nplay - 1

\* Player e has four or more consecutive pieces in a row, a column or a
\* diagonal of b.
HasLine(b, e) ==
  \E row \in 0..(b.size - 1), col \in 0..(b.size - 1), d \in Directions :
    \A k \in 0..(WinRun - 1) :
      /\ InBoard(b, <<row + k * d[1], col + k * d[2]>>)
      /\ b.data[(row + k * d[1]) * b.size + col + k * d[2]] = e

\* C34: in every board reached from a generated board by make_move and pass,
\* while the game is Ongoing neither player has four or more consecutive
\* pieces in a row, column or diagonal; a move leaves the game Won exactly
\* when the player who made it, who stays the active player, has such a line
\* through the landing cell; and when the game is Drawn no player has such a
\* line and there is no legal move.
C34_OutcomeMatchesLines ==
  /\ [](/\ board.state = "Ongoing" =>
             (~HasLine(board, "Player1") /\ ~HasLine(board, "Player2"))
        /\ board.state = "Won" => HasLine(board, board.active)
        /\ board.state = "Drawn" =>
             /\ ~HasLine(board, "Player1") /\ ~HasLine(board, "Player2")
             /\ Len(legal_moves_iter(board)) = 0)
  /\ [][(last'.op = "make_move" /\ Placed(last'.res)) =>
          \E i \in DOMAIN board.data :
            /\ board'.data[i] # board.data[i]
            /\ (board'.state = "Won") =
                 FourInLine(board', board.active, pos_for(board, i)[1], pos_for(board, i)[2])
            /\ board'.state = "Won" => board'.active = board.active]_vars

\* Player2 won a game in which Player1 has pieces on the board too.
C34_Witness ==
  /\ last = Call("make_move", "Won")
  /\ board.active = "Player2"
  /\ \E i \in DOMAIN board.data : board.data[i] = "Player1"

====
